---- MODULE Spec2Model ----
(***************************************************************************)
(* The live voice narrator (components/LiveNarrator.tsx) as a state        *)
(* machine.  One narrator instance is mounted by the host; the host feeds  *)
(* it story steps, language changes, replay clicks and skip() calls, and   *)
(* the platform (speech synthesis, audio playback, speech recognition,     *)
(* the choice interpreter, the silence timer) completes the asynchronous   *)
(* calls one continuation at a time.                                       *)
(*                                                                         *)
(* Every started operation (one run of runNarrationSequence,               *)
(* runSkippedSequence or the clicked-choice narration) is an "instance":   *)
(* it keeps the values its closures captured (localOpId, the rendered      *)
(* retryCount) and the position of its async chain.                        *)
(***************************************************************************)
EXTENDS Integers, Sequences, FiniteSets, TLC

\* ---------------------------------------------------------------- bounds
MaxOps == 2          \* operation instances started on the narrator
MaxSteps == 2        \* story steps the host supplies
MaxSegs == 1         \* final segments accumulated by one session
MaxSegsAlone == 2    \* the same while a single operation has been started
RetryCap == 3        \* the retryCount state is counted up to here (the code has no cap)
ChoiceCap == 2       \* the choices reported for one step are counted up to here
MaxAttempts == 3     \* the recognition sessions of one instance are counted up to here
MaxText == 3         \* pieces of one raw answer of the language model
MaxChoices == 2      \* choices of one list handed to the interpreter

\* --------------------------------------------------------------- program constants
RetryLimit == 2      \* `retryCount < 2`
NULL == 0

Ops == 1..MaxOps
NoId == <<"null", 0>>
States == {"IDLE", "NARRATING", "LISTENING", "PROCESSING"}
Choices == {"Left"}
UNCLEAR == "UNCLEAR"
\* Transcripts one recognition result can carry, as sequences of words and blanks.
Segments == {<<" ">>, <<" ", "STOP">>, <<"go">>}
AllHandlers == {"start", "result", "error", "end"}

VARIABLES
  operationIdRef,         \* operationIdRef.current
  currentAudioSourceRef,  \* instance whose source is held, or NULL
  speechRecognitionRef,   \* instance whose session is held, or NULL
  narrationStateRef,      \* last state reported to the host
  endOfSpeechTimeoutRef,  \* instance whose session armed the timer handle, or NULL
  timerPending,           \* the handle in endOfSpeechTimeoutRef has not fired / been cleared
  retryCount,             \* the retryCount state
  isInitialized,
  mounted,
  effectActive,           \* the main effect returned a cleanup that has not run yet
  storyStep,              \* [id, choiceMade] of the storyStep prop
  stepsMade,              \* step ids handed out by the host
  srAvailable,            \* window.SpeechRecognition exists
  ops,                    \* the operation instances
  nOps,                   \* instances started so far
  curOp,                  \* the instance no entry point or teardown has superseded, or NULL
  lateStart,              \* instances with an aborted session whose start event is undelivered
  fx,                     \* the last handler run: [on, op, stale, evts, errors, selected]
  choicesReported,        \* onChoiceSelected calls since the storyStep arrived (history)
  userSpeech,             \* interpretUserChoice: the transcript it was called with
  choices,                \* interpretUserChoice: the choice list it was called with
  response,               \* interpretUserChoice: <<response.text>> once generateContent returned
  returned                \* interpretUserChoice: <<the value returned>> once it returned

vars == <<operationIdRef, currentAudioSourceRef, speechRecognitionRef, narrationStateRef,
          endOfSpeechTimeoutRef, timerPending, retryCount, isInitialized, mounted,
          effectActive, storyStep, stepsMade, srAvailable, ops, nOps, curOp, lateStart, fx,
          choicesReported, userSpeech, choices, response, returned>>

narratorVars ==
  <<operationIdRef, currentAudioSourceRef, speechRecognitionRef, narrationStateRef,
    endOfSpeechTimeoutRef, timerPending, retryCount, isInitialized, mounted,
    effectActive, storyStep, stepsMade, srAvailable, ops, nOps, curOp, lateStart, fx,
    choicesReported>>

\* The variables of one call of interpretUserChoice.
callVars == <<userSpeech, choices, response, returned>>

\* ------------------------------------------------------------ state as a record
Cur ==
  [ operationIdRef |-> operationIdRef, currentAudioSourceRef |-> currentAudioSourceRef,
    speechRecognitionRef |-> speechRecognitionRef, narrationStateRef |-> narrationStateRef,
    endOfSpeechTimeoutRef |-> endOfSpeechTimeoutRef, timerPending |-> timerPending,
    retryCount |-> retryCount, isInitialized |-> isInitialized, mounted |-> mounted,
    effectActive |-> effectActive, storyStep |-> storyStep, stepsMade |-> stepsMade,
    srAvailable |-> srAvailable, ops |-> ops, nOps |-> nOps,
    curOp |-> curOp,
    lateStart |-> lateStart,
    fx |-> fx,
    choicesReported |-> choicesReported,
    \* the host's narrationState in its last render: the last state reported
    \* before the handler began
    rendered |-> narrationStateRef ]

Put(s) ==
  /\ operationIdRef' = s.operationIdRef
  /\ currentAudioSourceRef' = s.currentAudioSourceRef
  /\ speechRecognitionRef' = s.speechRecognitionRef
  /\ narrationStateRef' = s.narrationStateRef
  /\ endOfSpeechTimeoutRef' = s.endOfSpeechTimeoutRef
  /\ timerPending' = s.timerPending
  /\ retryCount' = s.retryCount
  /\ isInitialized' = s.isInitialized
  /\ mounted' = s.mounted
  /\ effectActive' = s.effectActive
  /\ storyStep' = s.storyStep
  /\ stepsMade' = s.stepsMade
  /\ srAvailable' = s.srAvailable
  /\ ops' = s.ops
  /\ nOps' = s.nOps
  /\ curOp' = s.curOp
  /\ lateStart' = s.lateStart
  /\ fx' = s.fx
  /\ choicesReported' = s.choicesReported

NoOp ==
  [ id |-> NoId, cap |-> 0, pc |-> "unused", phase |-> "none",
    inProc |-> FALSE, attempts |-> 0, idleSeen |-> FALSE,
    src |-> "none", onended |-> FALSE,
    ses |-> "none", final |-> <<>>,
    timers |-> 0 ]               \* silence timers armed by its session and pending

NoFx == [on |-> "none", op |-> NULL, stale |-> FALSE, evts |-> {}, errors |-> 0, selected |-> 0]

\* A handler of instance o begins, run on the event `on`: forget what the
\* previous handler did.  It is stale when o has been superseded.
Begin(s, o, on) ==
  [s EXCEPT !.fx = [NoFx EXCEPT !.on = on, !.op = o, !.stale = o # s.curOp]]

\* An entry point called by the host begins.
BeginHost(s) == [s EXCEPT !.fx = [NoFx EXCEPT !.on = "host"]]

Did(s, e) == [s EXCEPT !.fx.evts = @ \cup {e}]

Current(s, o) == s.operationIdRef = s.ops[o].id

\* ------------------------------------------------------------ callbacks to the host
updateNarrationState(s, state) ==
  Did([s EXCEPT !.narrationStateRef = state], <<"state", state>>)

onError(s) == [s EXCEPT !.fx.errors = @ + 1]

\* The host's handleSelectChoice(choice, 'voice'), as captured by the
\* operation that calls it: a session is active and the game is not loading.
handleSelectChoice(s, choice) ==
  IF ~s.ops[s.fx.op].idleSeen THEN Did(s, <<"discarded", choice>>)
  ELSE Did(s, <<"processChoice", choice>>)

onChoiceSelected(s, choice) ==
  handleSelectChoice(Did([s EXCEPT !.fx.selected = @ + 1, !.choicesReported = @ + 1],
                         <<"choice", choice>>), choice)

\* ------------------------------------------------------------ shared resources
\* stopAllAudio without clearing onended first: the stopped source's ended
\* event still runs the continuation.
stopAllAudioKeepsOnended(s) ==
  IF s.currentAudioSourceRef = NULL THEN s
  ELSE LET a == s.currentAudioSourceRef IN
       [s EXCEPT !.ops[a].src = IF @ = "playing" THEN "stopping" ELSE @,
                 !.currentAudioSourceRef = NULL]

stopAllAudio(s) ==
  IF s.currentAudioSourceRef = NULL THEN s
  ELSE LET a == s.currentAudioSourceRef IN
       [s EXCEPT !.ops[a].onended = FALSE,
                 !.ops[a].src = IF @ = "playing" THEN "stopping" ELSE @,
                 !.currentAudioSourceRef = NULL]

\* The handlers cleanupSpeechRecognition sets to null before abort().
DetachedOnCleanup == {"result", "error", "end"}

\* clearTimeout(endOfSpeechTimeoutRef.current): a no-op once the timer fired.
clearTimeout(s) ==
  IF ~s.timerPending THEN s
  ELSE [s EXCEPT !.ops[s.endOfSpeechTimeoutRef].timers = @ - 1, !.timerPending = FALSE]

\* cleanupSpeechRecognition leaving the silence timer alone.
cleanupSpeechRecognitionKeepsTimer(s) ==
  LET s1 == s
      r == s1.speechRecognitionRef
      left == AllHandlers \ DetachedOnCleanup
      s2 == IF r # NULL
            THEN Did([s1 EXCEPT !.ops[r].ses = "none",
                                !.lateStart = IF s1.ops[r].ses = "starting" /\ "start" \in left
                                              THEN @ \cup {r} ELSE @,
                                !.speechRecognitionRef = NULL],
                     <<"abort", left>>)
            ELSE s1
  IN updateNarrationState(s2, "IDLE")

cleanupSpeechRecognition(s) ==
  LET s1 == IF s.endOfSpeechTimeoutRef # NULL
            THEN [clearTimeout(s) EXCEPT !.endOfSpeechTimeoutRef = NULL]
            ELSE s
      r == s1.speechRecognitionRef
      left == AllHandlers \ DetachedOnCleanup
      s2 == IF r # NULL
            THEN Did([s1 EXCEPT !.ops[r].ses = "none",
                                !.lateStart = IF s1.ops[r].ses = "starting" /\ "start" \in left
                                              THEN @ \cup {r} ELSE @,
                                !.speechRecognitionRef = NULL],
                     <<"abort", left>>)
            ELSE s1
  IN updateNarrationState(s2, "IDLE")

\* ------------------------------------------------------------ the async chain of one instance
EndChain(s, o) ==
  [s EXCEPT !.ops[o].pc = "done", !.ops[o].phase = "none", !.ops[o].inProc = FALSE]

\* A rejection (or throw) reaches the innermost enclosing catch: the one of
\* processUserSpeech when the chain is inside its try block, otherwise the one of
\* runNarrationSequence / runSkippedSequence / the clicked-choice .catch.
\* kind = "cancelled" when the message includes 'Operation cancelled'.
\* `by` names the entry points whose operations have a top-level catch: a
\* rejection no catch receives is left unhandled.
Caught(s, o, by, kind) ==
  IF s.ops[o].id[1] \notin by
  THEN EndChain(Did(s, <<"unhandledrejection">>), o)
  ELSE LET s1 == Did(s, <<"caught", kind>>)
       IN IF s.ops[o].inProc
          THEN EndChain(updateNarrationState(IF Current(s1, o) THEN onError(s1) ELSE s1,
                                             "IDLE"), o)
          ELSE EndChain(IF kind # "cancelled" THEN onError(s1) ELSE s1, o)

\* The clicked-choice effect calling narrateText without `.catch`.
RejectReplayUncaught(s, o, kind) == Caught(s, o, {"step", "skip"}, kind)

Reject(s, o, kind) == Caught(s, o, {"step", "skip", "replay"}, kind)

\* narrateText up to its first await.
narrateText(s, o, phase) ==
  IF ~s.isInitialized
  THEN Reject(IF Current(s, o) THEN onError(s) ELSE s, o, "other")
  ELSE IF ~Current(s, o)
  THEN Reject(s, o, "cancelled")
  ELSE LET s1 == stopAllAudio(updateNarrationState(s, "NARRATING"))
       IN Did([s1 EXCEPT !.ops[o].pc = "synth", !.ops[o].phase = phase],
              <<"synth", phase, s.ops[o].attempts>>)

\* startListeningForChoice that opens the new session without releasing the
\* one held.
startListeningForChoiceKeepsSession(s, o) ==
  IF ~Current(s, o)
  THEN Reject(s, o, "cancelled")
  ELSE IF ~s.srAvailable
  THEN Reject(onError(s), o, "other")
  ELSE Did([s EXCEPT !.speechRecognitionRef = o,
                     !.ops[o].ses = "starting",
                     !.ops[o].final = <<>>,
                     !.ops[o].attempts = @ + 1,
                     !.ops[o].pc = "listen",
                     !.ops[o].phase = "none"],
           <<"listen">>)

\* startListeningForChoice without the test of SpeechRecognition.
startListeningForChoiceUnchecked(s, o) ==
  IF ~Current(s, o)
  THEN Reject(s, o, "cancelled")
  ELSE LET s1 == cleanupSpeechRecognition(s)
       IN Did([s1 EXCEPT !.speechRecognitionRef = o,
                         !.ops[o].ses = "starting",
                         !.ops[o].final = <<>>,
                         !.ops[o].attempts = @ + 1,
                         !.ops[o].pc = "listen",
                         !.ops[o].phase = "none"],
              <<"listen">>)

\* startListeningForChoice up to recognition.start().
startListeningForChoice(s, o) ==
  IF ~Current(s, o)
  THEN Reject(s, o, "cancelled")
  ELSE IF ~s.srAvailable
  THEN Reject(onError(s), o, "other")
  ELSE LET s1 == cleanupSpeechRecognition(s)
       IN Did([s1 EXCEPT !.speechRecognitionRef = o,
                         !.ops[o].ses = "starting",
                         !.ops[o].final = <<>>,
                         !.ops[o].attempts = @ + 1,
                         !.ops[o].pc = "listen",
                         !.ops[o].phase = "none"],
              <<"listen">>)

\* The sequence without the choice prompt: listening follows the story.
narrateResolvedListensAtOnce(s, o) ==
  CASE s.ops[o].phase \in {"story", "prompt", "unclear"} -> startListeningForChoice(s, o)
    [] s.ops[o].phase = "fail" ->
         EndChain(updateNarrationState(s, "IDLE"), o)
    [] OTHER -> EndChain(s, o)

\* What follows `await narrateText(...)` once the promise resolved.
narrateResolved(s, o) ==
  CASE s.ops[o].phase = "story" -> narrateText(s, o, "prompt")
    [] s.ops[o].phase \in {"prompt", "unclear"} -> startListeningForChoice(s, o)
    [] s.ops[o].phase = "fail" ->
         EndChain(updateNarrationState(s, "IDLE"), o)
    [] OTHER -> EndChain(s, o)

\* The listening promise is settled: only the first settlement counts.
listenResolved(s, o) == IF s.ops[o].pc = "listen" THEN EndChain(s, o) ELSE s
listenRejected(s, o) == IF s.ops[o].pc = "listen" THEN Reject(s, o, "other") ELSE s

\* processUserSpeech up to `await interpretUserChoice(...)`.
processUserSpeech(s, o, speech) ==
  IF ~Current(s, o)
  THEN listenResolved(s, o)
  ELSE Did([updateNarrationState(s, "PROCESSING")
              EXCEPT !.ops[o].pc = "interp", !.ops[o].inProc = TRUE, !.ops[o].phase = "none"],
           <<"interpret", speech>>)

\* finalTranscript: the concatenation of the final segments received.
RECURSIVE Concat(_)
Concat(segs) == IF segs = <<>> THEN <<>> ELSE Head(segs) \o Concat(Tail(segs))

\* finalTranscript.trim().toLowerCase(), on words and blanks.
RECURSIVE TrimLeft(_)
TrimLeft(t) == IF t # <<>> /\ Head(t) = " " THEN TrimLeft(Tail(t)) ELSE t
RECURSIVE TrimRight(_)
TrimRight(t) ==
  IF t # <<>> /\ t[Len(t)] = " " THEN TrimRight(SubSeq(t, 1, Len(t) - 1)) ELSE t
Trim(t) == TrimRight(TrimLeft(t))
LowerSeg(w) == IF w = "STOP" THEN "stop" ELSE w
\* toLowerCase left out.
KeepCase(t) == t

ToLowerCase(t) == [i \in 1..Len(t) |-> LowerSeg(t[i])]
stopCommand == <<"stop">>

stopListeningAndProcess(s, o) ==
  IF s.speechRecognitionRef = NULL THEN s
  ELSE LET finalTranscript == Concat(s.ops[o].final)
           speechToProcess == ToLowerCase(Trim(finalTranscript))
           s1 == cleanupSpeechRecognition(Did(s, <<"finalize", finalTranscript>>))
       IN IF speechToProcess = <<>> THEN processUserSpeech(s1, o, <<>>)
          ELSE IF speechToProcess = stopCommand THEN listenResolved(s1, o)
          ELSE IF Current(s1, o) THEN processUserSpeech(s1, o, speechToProcess)
          ELSE s1

\* ------------------------------------------------------------ entry points
\* Every instance started so far is superseded (a newer operation, or a teardown).
Supersede(s) == [s EXCEPT !.curOp = NULL]

NewInstance(s, id) ==
  LET o == s.nOps + 1
  IN [s EXCEPT !.nOps = o, !.curOp = o,
               !.ops[o] = [NoOp EXCEPT !.id = id, !.cap = s.retryCount,
                                       !.idleSeen = s.rendered = "IDLE",
                                       !.pc = "start"]]

\* The cleanup the main effect returns.
mainCleanup(s) ==
  IF ~s.effectActive THEN s
  ELSE LET s1 == [Supersede(s) EXCEPT !.operationIdRef = NoId, !.effectActive = FALSE]
       IN updateNarrationState(cleanupSpeechRecognition(stopAllAudio(s1)), "IDLE")

\* The main effect without its test of choiceMade.
mainEffectIgnoresChoiceMade(s) ==
  IF ~s.isInitialized THEN s
  ELSE LET opId == <<"step", s.storyStep.id>>
           o == s.nOps + 1
           s1 == [NewInstance(s, opId) EXCEPT !.operationIdRef = opId,
                                              !.retryCount = 0,
                                              !.effectActive = TRUE]
       IN narrateText(s1, o, "story")

\* The body of the main effect, run for the storyStep of s.
mainEffect(s) ==
  IF ~s.isInitialized \/ s.storyStep.choiceMade THEN s
  ELSE LET opId == <<"step", s.storyStep.id>>
           o == s.nOps + 1
           s1 == [NewInstance(s, opId) EXCEPT !.operationIdRef = opId,
                                                      !.retryCount = 0,
                                                      !.effectActive = TRUE]
       IN narrateText(s1, o, "story")

skip(s) ==
  LET opId == <<"skip", s.storyStep.id>>
      o == s.nOps + 1
      s1 == [NewInstance(stopAllAudio(s), opId) EXCEPT !.operationIdRef = opId]
  IN narrateText(s1, o, "prompt")

\* The clicked-choice effect stopping the audio only.
clickedChoiceCancelKeepsSession(s) == stopAllAudio(s)

\* What the clicked-choice effect releases before it narrates.
clickedChoiceCancel(s) == cleanupSpeechRecognition(stopAllAudio(s))

clickedChoiceEffect(s) ==
  LET o == s.nOps + 1
      id == <<"replay", o>>
      s1 == [NewInstance(s, id) EXCEPT !.operationIdRef = id]
  IN narrateText(clickedChoiceCancel(s1), o, "replay")

\* The cleanup of the initialisation effect.
initCleanup(s) == stopAllAudio(cleanupSpeechRecognition(s))

\* The host starts at most MaxOps operations and a session delivers at most
\* MaxSegs final segments, MaxSegsAlone while there is a single operation.
Bounded(s) ==
  /\ s.nOps <= MaxOps
  /\ \A o \in Ops :
       Len(s.ops[o].final) <= IF s.nOps <= 1 THEN MaxSegsAlone ELSE MaxSegs

Min(a, b) == IF a < b THEN a ELSE b

\* The two counters an operation can raise for ever are counted up to their
\* caps: RetryCap stands for every retryCount >= RetryCap (the code compares
\* it with 2 only), MaxAttempts for every number of sessions >= MaxAttempts.
Saturate(s) ==
  [s EXCEPT !.retryCount = Min(@, RetryCap),
            !.choicesReported = Min(@, ChoiceCap),
            !.ops = [o \in Ops |-> [@[o] EXCEPT !.attempts = Min(@, MaxAttempts)]]]

\* Nothing can resume the chain of instance o: it is over, or it waits for an
\* ended event whose handler was detached, or for a session that was released;
\* and no session or silence timer of o is left to call stopListeningAndProcess.
Inert(s, o) ==
  /\ \/ s.ops[o].pc = "done"
     \/ s.ops[o].pc = "play" /\ ~s.ops[o].onended
     \/ s.ops[o].pc = "listen"
  /\ s.ops[o].ses = "none"
  /\ ~(s.timerPending /\ s.endOfSpeechTimeoutRef = o)

\* The values captured by an inert chain are never read again: forget them.
Tidy(s) ==
  [s EXCEPT !.ops = [o \in Ops |->
     IF ~Inert(s, o) THEN s.ops[o]
     ELSE [s.ops[o] EXCEPT !.pc = "done", !.phase = "none", !.inProc = FALSE,
                           !.cap = 0, !.attempts = 0, !.idleSeen = FALSE,
                           !.final = <<>>]]]

\* A handler ran to completion and left state s.
Step(s) == \E t \in {Tidy(Saturate(s))} : Bounded(t) /\ Put(t) /\ UNCHANGED callVars

\* ------------------------------------------------------------ actions: the host
InitEffect(ok) ==
  /\ mounted = "mounting"
  /\ LET s0 == [BeginHost(Cur) EXCEPT !.mounted = "mounted"]
     IN IF ok THEN Step(mainEffect([s0 EXCEPT !.isInitialized = TRUE]))
        ELSE Step(onError(s0))

NewStep ==
  /\ mounted = "mounted" /\ stepsMade < MaxSteps /\ nOps < MaxOps
  /\ LET s0 == [BeginHost(Cur) EXCEPT
                  !.stepsMade = stepsMade + 1,
                  !.choicesReported = 0,
                  !.storyStep = [id |-> stepsMade + 1, choiceMade |-> FALSE]]
     IN Step(mainEffect(mainCleanup(s0)))

ShowStep(k) ==
  /\ mounted = "mounted" /\ k <= stepsMade /\ k # storyStep.id /\ nOps < MaxOps
  /\ LET s0 == [BeginHost(Cur) EXCEPT
                  !.choicesReported = 0,
                  !.storyStep = [id |-> k, choiceMade |-> k < stepsMade]]
     IN Step(mainEffect(mainCleanup(s0)))

LanguageChange ==
  /\ mounted = "mounted" /\ nOps < MaxOps
  /\ Step(mainEffect(mainCleanup(BeginHost(Cur))))

Skip ==
  /\ mounted = "mounted" /\ nOps < MaxOps
  /\ Step(skip(BeginHost(Cur)))

ReplayClick ==
  /\ mounted = "mounted" /\ isInitialized /\ nOps < MaxOps
  /\ Step(clickedChoiceEffect(BeginHost(Cur)))

Unmount ==
  /\ mounted = "mounted"
  /\ Step([initCleanup(mainCleanup(Supersede(BeginHost(Cur))))
             EXCEPT !.mounted = "unmounted"])

\* ------------------------------------------------------------ actions: synthesis and playback
SynthReturns(o) ==
  /\ ops[o].pc = "synth"
  /\ LET s == Begin(Cur, o, "synth")
     IN Step(IF Current(s, o) THEN [s EXCEPT !.ops[o].pc = "decode"]
             ELSE Reject(s, o, "cancelled"))

SynthThrows(o) ==
  /\ ops[o].pc = "synth"
  /\ LET s == Did(Begin(Cur, o, "synth"), <<"threw">>)
     IN Step(Reject(IF Current(s, o) THEN onError(s) ELSE s, o, "other"))

DecodeReturns(o) ==
  /\ ops[o].pc = "decode"
  /\ LET s == Begin(Cur, o, "decode")
     IN Step(IF Current(s, o)
             THEN Did([s EXCEPT !.ops[o].pc = "play", !.ops[o].src = "playing",
                                !.ops[o].onended = TRUE,
                                !.currentAudioSourceRef = o],
                      <<"play">>)
             ELSE Reject(s, o, "cancelled"))

DecodeThrows(o) ==
  /\ ops[o].pc = "decode"
  /\ LET s == Begin(Cur, o, "decode")
     IN Step(Reject(IF Current(s, o) THEN onError(s) ELSE s, o, "other"))

\* The closure assigned to source.onended.
sourceOnended(s, o, afterStop) ==
  LET s1 == Did(s, <<"onended", afterStop>>)
  IN IF s1.currentAudioSourceRef # o THEN s1
     ELSE LET s2 == [s1 EXCEPT !.currentAudioSourceRef = NULL]
          IN IF s2.ops[o].pc # "play" THEN s2
             ELSE IF Current(s2, o) THEN narrateResolved(s2, o)
             ELSE Reject(s2, o, "cancelled")

\* The ended event of a source: after it played to its end, or after stop().
EndedEvent(s, o) ==
  LET s1 == [s EXCEPT !.ops[o].src = "none", !.ops[o].onended = FALSE]
  IN IF s.ops[o].onended THEN sourceOnended(s1, o, s.ops[o].src = "stopping") ELSE s1

\* A source plays to its end only while the audio context is open: the
\* initialisation effect's cleanup closes it.
PlaybackEnded(o) ==
  /\ ops[o].src = "playing" /\ mounted # "unmounted"
  /\ Step(EndedEvent(Begin(Cur, o, "ended"), o))

StoppedSourceEnded(o) ==
  /\ ops[o].src = "stopping"
  /\ Step(EndedEvent(Begin(Cur, o, "stopEnded"), o))

\* ------------------------------------------------------------ actions: recognition
RecStart(o) ==
  /\ ops[o].ses = "starting"
  /\ Step(updateNarrationState([Begin(Cur, o, "start") EXCEPT !.ops[o].ses = "active"],
                               "LISTENING"))

\* The start event of a session that was aborted before the event was delivered:
\* onstart is still attached.
LateRecStart(o) ==
  /\ o \in lateStart
  /\ Step(updateNarrationState([Begin(Cur, o, "lateStart") EXCEPT !.lateStart = @ \ {o}],
                               "LISTENING"))

\* onresult adding the interim transcripts to finalTranscript as well.
RecResultKeepsInterim(o, seg, isFinal) ==
  /\ ops[o].ses = "active"
  /\ LET s == Did(Begin(Cur, o, "result"), <<"result", seg, isFinal>>)
         s1 == IF s.endOfSpeechTimeoutRef # NULL THEN clearTimeout(s) ELSE s
     IN Step([s1 EXCEPT !.ops[o].final = Append(@, seg),
                        !.ops[o].timers = @ + 1,
                        !.endOfSpeechTimeoutRef = o,
                        !.timerPending = TRUE])

\* A result event carrying one transcript, final or interim.
RecResult(o, seg, isFinal) ==
  /\ ops[o].ses = "active"
  /\ LET s == Did(Begin(Cur, o, "result"), <<"result", seg, isFinal>>)
         s1 == IF s.endOfSpeechTimeoutRef # NULL THEN clearTimeout(s) ELSE s
     IN Step([s1 EXCEPT !.ops[o].final = IF isFinal THEN Append(@, seg) ELSE @,
                        !.ops[o].timers = @ + 1,
                        !.endOfSpeechTimeoutRef = o,
                        !.timerPending = TRUE])

RecError(o, error) ==
  /\ ops[o].ses \in {"starting", "active"}
  /\ LET s == Did([Begin(Cur, o, "error") EXCEPT !.ops[o].ses = "closing"],
                  <<"recerror", error>>)
     IN Step(IF error # "aborted" /\ Current(s, o)
             THEN stopListeningAndProcess(s, o)
             ELSE listenRejected(s, o))

RecEnd(o) ==
  /\ ops[o].ses \in {"active", "closing"}
  /\ LET s == [Begin(Cur, o, "end") EXCEPT !.ops[o].ses = "none"]
     IN Step(IF s.speechRecognitionRef # o THEN s
             ELSE LET s1 == [s EXCEPT !.speechRecognitionRef = NULL]
                      s2 == IF s1.narrationStateRef = "LISTENING"
                            THEN updateNarrationState(s1, "IDLE") ELSE s1
                  IN listenResolved(s2, o))

TimerFires ==
  /\ timerPending
  /\ LET o == endOfSpeechTimeoutRef
     IN Step(stopListeningAndProcess([Begin(Cur, o, "timer") EXCEPT !.timerPending = FALSE,
                                                                    !.ops[o].timers = @ - 1],
                                     o))

\* ------------------------------------------------------------ actions: interpretation
\* The branch `result !== 'UNCLEAR'` going on to the retry's listening.
choiceMatchedThenListens(s, o, result) ==
  startListeningForChoice(onChoiceSelected(s, result), o)

\* The branch `result !== 'UNCLEAR'`: the chain stops after the callback.
choiceMatched(s, o, result) == EndChain(onChoiceSelected(s, result), o)

InterpReturns(o, result) ==
  /\ ops[o].pc = "interp"
  /\ LET s == Did(Begin(Cur, o, "interp"), <<"returned", result>>)
     IN Step(IF ~Current(s, o) THEN EndChain(s, o)
             ELSE IF result # UNCLEAR THEN choiceMatched(s, o, result)
             ELSE IF s.ops[o].cap < RetryLimit
             THEN narrateText([s EXCEPT !.retryCount = @ + 1], o, "unclear")
             ELSE narrateText(s, o, "fail"))

InterpThrows(o) ==
  /\ ops[o].pc = "interp"
  /\ Step(Reject(Did(Begin(Cur, o, "interp"), <<"threw">>), o, "other"))

\* ------------------------------------------------------------ specification
\* The narrator is mounted on the step the host shows: the latest step of the
\* session, or an earlier one, whose choice was made.
NarratorInit ==
  /\ operationIdRef = NoId
  /\ currentAudioSourceRef = NULL
  /\ speechRecognitionRef = NULL
  /\ narrationStateRef = "IDLE"
  /\ endOfSpeechTimeoutRef = NULL
  /\ timerPending = FALSE
  /\ retryCount = 0
  /\ isInitialized = FALSE
  /\ mounted = "mounting"
  /\ effectActive = FALSE
  /\ stepsMade \in 1..MaxSteps
  /\ \E k \in 1..stepsMade : storyStep = [id |-> k, choiceMade |-> k < stepsMade]
  /\ srAvailable \in BOOLEAN
  /\ ops = [o \in Ops |-> NoOp]
  /\ nOps = 0
  /\ curOp = NULL
  /\ lateStart = {}
  /\ fx = NoFx
  /\ choicesReported = 0

\* No call of interpretUserChoice is followed in detail.
Init ==
  /\ NarratorInit
  /\ userSpeech = <<>> /\ choices = <<>> /\ response = <<>> /\ returned = <<>>

Next ==
  \/ \E ok \in BOOLEAN : InitEffect(ok)
  \/ NewStep
  \/ \E k \in 1..MaxSteps : ShowStep(k)
  \/ LanguageChange
  \/ Skip
  \/ ReplayClick
  \/ Unmount
  \/ \E o \in Ops : SynthReturns(o)
  \/ \E o \in Ops : SynthThrows(o)
  \/ \E o \in Ops : DecodeReturns(o)
  \/ \E o \in Ops : DecodeThrows(o)
  \/ \E o \in Ops : PlaybackEnded(o)
  \/ \E o \in Ops : StoppedSourceEnded(o)
  \/ \E o \in Ops : RecStart(o)
  \/ \E o \in Ops : LateRecStart(o)
  \/ \E o \in Ops, seg \in Segments : RecResult(o, seg, TRUE)
  \/ \E o \in Ops, seg \in Segments : RecResult(o, seg, FALSE)
  \/ \E o \in Ops, error \in {"aborted", "no-speech"} : RecError(o, error)
  \/ \E o \in Ops : RecEnd(o)
  \/ TimerFires
  \/ \E o \in Ops, result \in Choices \cup {UNCLEAR} : InterpReturns(o, result)
  \/ \E o \in Ops : InterpThrows(o)

Spec == Init /\ [][Next]_vars

\* ------------------------------------------------------------ the narrator when nothing fails
\* The narrator is mounted on the latest step, speech recognition exists, no
\* external call throws, no session is aborted or ended by the platform
\* before it gave a transcript or an error; the host may call skip() and
\* unmount the narrator.
LiveInit == Init /\ srAvailable /\ stepsMade = 1

ClosingSessionEnds(o) == ops[o].ses = "closing" /\ RecEnd(o)

\* The platform completes what operation o waits for.
Progress(o) ==
  \/ SynthReturns(o)
  \/ DecodeReturns(o)
  \/ PlaybackEnded(o)
  \/ RecStart(o)
  \/ \E seg \in Segments : RecResult(o, seg, TRUE)
  \/ RecError(o, "no-speech")
  \/ \E result \in Choices \cup {UNCLEAR} : InterpReturns(o, result)

LiveNext ==
  \/ InitEffect(TRUE)
  \/ Skip
  \/ Unmount
  \/ \E o \in Ops : Progress(o)
  \/ \E o \in Ops : RecResult(o, <<" ">>, FALSE)
  \/ \E o \in Ops : StoppedSourceEnded(o)
  \/ \E o \in Ops : LateRecStart(o)
  \/ \E o \in Ops : ClosingSessionEnds(o)
  \/ TimerFires

\* What an operation waits for eventually arrives, and a silence timer that
\* is armed eventually fires.
LiveSpec ==
  /\ LiveInit /\ [][LiveNext]_vars
  /\ \A o \in Ops : WF_vars(Progress(o))
  /\ WF_vars(TimerFires)

\* ------------------------------------------------------------ interpretUserChoice
\* A text is a sequence of pieces: a blank, a double quote, or a run of other
\* characters.  'UNCLEAR' is written in two pieces, so that a text can hold a
\* part of it.
Quote == "\""
UnclearText == <<"UN", "CLEAR">>
Pieces == {Quote, " ", "Wait", "um", "UN", "CLEAR"}

SeqsUpTo(S, n) == UNION {[1..k -> S] : k \in 0..n}

ExampleChoices == << <<"Open the door">>, <<"Run away">>, <<"Wait">> >>
QuotedRunAway == <<Quote, "Run away", ".", Quote>>
VerboseRunAway == <<"I think", " ", "Run away", " ", "is best">>
ClimbTheWall == <<"climb the wall">>

\* The inputs of the calls followed: every choice list of at most MaxChoices
\* of five choices (one of them the empty string), every raw answer of at
\* most MaxText pieces, and the lists and answers above.
ChoiceTexts == {<<>>, <<"Wait">>, <<"Wait", " ", "um">>, <<"CLEAR">>, UnclearText}
ChoiceLists == SeqsUpTo(ChoiceTexts, MaxChoices) \cup {ExampleChoices}
RawAnswers == SeqsUpTo(Pieces, MaxText) \cup {QuotedRunAway, VerboseRunAway, ClimbTheWall}
Transcripts == {<<>>, <<"go">>}

\* replace(/^"|"$/g, ''): a quote at the start and a quote at the end go.
StripQuotes(t) ==
  LET a == IF t # <<>> /\ Head(t) = Quote THEN Tail(t) ELSE t
  IN IF a # <<>> /\ a[Len(a)] = Quote THEN SubSeq(a, 1, Len(a) - 1) ELSE a

\* text.includes(c)
Includes(text, c) ==
  \E i \in 0..(Len(text) - Len(c)) : SubSeq(text, i + 1, i + Len(c)) = c

\* list.includes(x)
ListIncludes(list, x) == \E i \in 1..Len(list) : list[i] = x

\* The last choice that the text includes.
RECURSIVE FindLast(_, _)
FindLast(list, text) ==
  IF list = <<>> THEN <<>>
  ELSE IF Includes(text, list[Len(list)]) THEN <<list[Len(list)]>>
  ELSE FindLast(SubSeq(list, 1, Len(list) - 1), text)

\* choices.find(c => result.includes(c)): <<the first such choice>>, or <<>>
\* for undefined.
RECURSIVE Find(_, _)
Find(list, text) ==
  IF list = <<>> THEN <<>>
  ELSE IF Includes(text, Head(list)) THEN <<Head(list)>>
  ELSE Find(Tail(list), text)

\* interpretUserChoice returning the model's answer without validating it.
interpretUserChoiceUnvalidated(sp, cs, text) == StripQuotes(Trim(text))

\* `if (foundChoice)`: the choice found is a string that is not empty.
Truthy(found) == found # <<>> /\ found[1] # <<>>

\* interpretUserChoice from `response.text` on.
interpretUserChoice(sp, cs, text) ==
  LET result == StripQuotes(Trim(text))
      foundChoice == Find(cs, result)
  IN IF ListIncludes(cs, result) \/ result = UnclearText THEN result
     ELSE IF Truthy(foundChoice) THEN foundChoice[1]
     ELSE UnclearText

\* generateContent returns the raw answer `text`.
GenerateContentReturns(text) ==
  /\ response = <<>>
  /\ response' = <<text>>
  /\ UNCHANGED <<narratorVars, userSpeech, choices, returned>>

ReturnChoice ==
  /\ response # <<>> /\ returned = <<>>
  /\ returned' = <<interpretUserChoice(userSpeech, choices, response[1])>>
  /\ UNCHANGED <<narratorVars, userSpeech, choices, response>>

\* One call of interpretUserChoice, for every transcript, choice list and raw
\* answer.
InterpInit ==
  /\ NarratorInit /\ stepsMade = 1 /\ srAvailable
  /\ userSpeech \in Transcripts /\ choices \in ChoiceLists
  /\ response = <<>> /\ returned = <<>>

InterpNext ==
  \/ \E text \in RawAnswers : GenerateContentReturns(text)
  \/ ReturnChoice

InterpSpec == InterpInit /\ [][InterpNext]_vars

\* ------------------------------------------------------------ what the last handler did
Reported == {e[2] : e \in {x \in fx.evts : x[1] = "state"}}
CalledOnError == fx.errors > 0
CalledOnChoiceSelected == \E c \in Choices : <<"choice", c>> \in fx.evts
StartedAudio == <<"play">> \in fx.evts
OpenedSession == <<"listen">> \in fx.evts
Playing == {o \in Ops : ops[o].src = "playing"}
CalledInterpreter == \E e \in fx.evts : e[1] = "interpret"
ActiveSessions == {o \in Ops : ops[o].ses \in {"starting", "active", "closing"}}

\* ------------------------------------------------------------ claims
\* C1: once an operation is superseded, the continuation of its pending
\* synthesis or interpretation call reports no narration state.
C1_StaleCallReportsNoState ==
  (fx.stale /\ fx.on \in {"synth", "interp"}) => Reported = {}

\* C2: a superseded operation never invokes onChoiceSelected.
C2_StaleNeverSelectsChoice == fx.stale => ~CalledOnChoiceSelected

\* C3: a superseded operation starts no audio source and opens no
\* recognition session.
C3_StaleStartsNoResource == fx.stale => ~StartedAudio /\ ~OpenedSession

\* C4: a superseded operation never invokes onError.
C4_StaleNeverCallsOnError == fx.stale => ~CalledOnError

\* C5: the operations started on one narrator have pairwise different
\* identifiers.
C5_OperationIdsUnique ==
  \A a, b \in 1..nOps : a # b => ops[a].id # ops[b].id

\* C6: a retry narration is begun only by an operation that made at most 2
\* listening attempts, and the give-up narration only by one that made exactly 3.
C6_RetryBound ==
  \A e \in fx.evts :
    e[1] = "synth" =>
      /\ e[2] = "unclear" => e[3] <= RetryLimit
      /\ e[2] = "fail" => e[3] = RetryLimit + 1

\* C7: the retry counter stays within 0..2.
C7_RetryCountBounded == 0 <= retryCount /\ retryCount <= RetryLimit

\* C8: at most one audio source is playing, and it is the one held in
\* currentAudioSourceRef.
C8_SingleActiveAudio ==
  /\ Cardinality(Playing) <= 1
  /\ \A o \in Playing : currentAudioSourceRef = o

\* C9: the ended continuation of a source runs only while the source plays (so
\* once, at its natural end) and never for a source that stopAllAudio stopped.
C9_EndedOnlyOnNaturalEnd ==
  /\ \A o \in Ops : ops[o].onended => ops[o].src = "playing"
  /\ <<"onended", TRUE>> \notin fx.evts

\* A stopped source's ended event was dispatched and ran nothing.
C9_Witness == fx.on = "stopEnded" /\ fx.evts = {}

\* C10: whenever abort() is invoked on a session, none of its four event
\* callbacks is still attached.
C10_DetachedBeforeAbort ==
  \A e \in fx.evts : e[1] = "abort" => e[2] = {}

\* C11: at most one recognition session is started and neither aborted nor
\* ended, and it is the one held in speechRecognitionRef.
C11_SingleActiveSession ==
  /\ Cardinality(ActiveSessions) <= 1
  /\ \A o \in ActiveSessions : speechRecognitionRef = o

\* A session was opened while another one was held (and aborted first).
C11_Witness ==
  /\ OpenedSession
  /\ \E e \in fx.evts : e[1] = "abort"
  /\ Cardinality(ActiveSessions) = 1

\* The transcript finalised by the last handler is the stop phrase, whatever
\* its case and the blanks around it.
SaidStop ==
  \E e \in fx.evts :
    /\ e[1] = "finalize"
    /\ SelectSeq(e[2], LAMBDA w : w # " ") \in {<<"stop">>, <<"STOP">>}

\* C12: when the current operation finalises a transcript equal to the stop
\* phrase, its chain ends in that very handler with the session and the
\* silence timer released and the state IDLE, without calling the
\* interpreter or onChoiceSelected and without changing the retry counter.
C12_StopCommand ==
  [][(SaidStop' /\ ~fx'.stale) =>
       /\ speechRecognitionRef' = NULL
       /\ ~timerPending'
       /\ narrationStateRef' = "IDLE"
       /\ ops'[fx'.op].pc = "done"
       /\ ~CalledInterpreter'
       /\ ~CalledOnChoiceSelected'
       /\ retryCount' = retryCount]_vars

C12_Witness == SaidStop /\ ~fx.stale /\ fx.on = "timer"

\* The last handler of an operation did synthesis, playback, listening or
\* interpretation work.
DidWork ==
  \/ StartedAudio \/ OpenedSession \/ CalledInterpreter
  \/ \E e \in fx.evts : e[1] = "synth"

\* Operation o has nothing pending: its chain is over and it has no source
\* whose end it awaits, no session and no silence timer.
Over(o) ==
  /\ ops[o].pc = "done"
  /\ ~ops[o].onended
  /\ ops[o].ses = "none"
  /\ ~(timerPending /\ endOfSpeechTimeoutRef = o)

\* C13: when the interpreter returns a valid choice to the current operation,
\* onChoiceSelected is invoked once, with that choice, the retry counter is
\* left alone and the operation has nothing pending; an operation with
\* nothing pending stays so and does no synthesis, playback, listening or
\* interpretation any more.
C13_SuccessPath ==
  [][/\ \A c \in Choices, o \in Ops :
          (fx'.on = "interp" /\ fx'.op = o /\ ~fx'.stale
             /\ <<"returned", c>> \in fx'.evts) =>
            /\ fx'.selected = 1
            /\ <<"choice", c>> \in fx'.evts
            /\ retryCount' = retryCount
            /\ Over(o)'
     /\ \A o \in Ops : Over(o) => Over(o)' /\ (fx'.op = o => ~DidWork')]_vars

C13_Witness ==
  /\ fx.on = "interp" /\ ~fx.stale /\ <<"returned", "Left">> \in fx.evts
  /\ fx.selected = 1

\* C14: when UNCLEAR is returned to the current operation while the retry
\* counter is at its bound, the failure message is narrated; while it is
\* narrated the operation opens no session and selects no choice, and when
\* its playback ends the state is IDLE and the operation has nothing pending.
C14_GiveUpPath ==
  [][\A o \in Ops :
       /\ (fx'.on = "interp" /\ fx'.op = o /\ ~fx'.stale
              /\ <<"returned", UNCLEAR>> \in fx'.evts /\ retryCount >= RetryLimit) =>
            ops'[o].pc = "synth" /\ ops'[o].phase = "fail"
       /\ (ops[o].phase = "fail" /\ fx'.op = o) =>
            /\ ~OpenedSession' /\ fx'.selected = 0
            /\ (fx'.on = "ended" /\ ~fx'.stale) =>
                  narrationStateRef' = "IDLE" /\ Over(o)']_vars

\* C15: when nothing fails, every operation that is not superseded eventually
\* has nothing pending (it selected a choice, gave up, or was told to stop):
\* it does not go through listening for ever.
C15_BoundedTurn ==
  \A o \in Ops : (curOp = o) ~> (curOp # o \/ Over(o))

StepOps == {o \in Ops : ops[o].id[1] = "step"}

\* C16: an operation started for a step requests the synthesis of the choice
\* prompt only in the handler of the natural end of its story playback, and
\* opens a recognition session only in the handler of the natural end of a
\* playback of its own: the prompt's for its first session, the retry
\* message's for a later one.
C16_SequenceOrder ==
  [][\A o \in StepOps :
       fx'.op = o =>
         /\ (\E e \in fx'.evts : e[1] = "synth" /\ e[2] = "prompt") =>
              /\ fx'.on = "ended" /\ <<"onended", FALSE>> \in fx'.evts
              /\ ops[o].phase = "story" /\ ops[o].src = "playing"
         /\ OpenedSession' =>
              /\ fx'.on = "ended" /\ <<"onended", FALSE>> \in fx'.evts
              /\ ops[o].src = "playing"
              /\ ops[o].phase = IF ops[o].attempts = 0 THEN "prompt" ELSE "unclear"]_vars

\* A step's operation opened its first session when its prompt ended.
C16_Witness ==
  /\ fx.on = "ended" /\ OpenedSession /\ fx.op \in StepOps
  /\ ops[fx.op].attempts = 1

\* C17: skip() called while the current operation narrates leaves no source
\* playing and starts an operation at the synthesis of the choice prompt; an
\* operation started by skip() never narrates the story; and once a skip
\* operation is the current one, the operations before it do no synthesis,
\* playback, listening or interpretation work any more.
C17_SkipWhileNarrating ==
  [][/\ (/\ fx'.on = "host" /\ nOps' = nOps + 1 /\ ops'[nOps'].id[1] = "skip"
         /\ curOp \in Ops /\ ops[curOp].pc \in {"synth", "decode", "play"}) =>
          /\ Playing' = {} /\ currentAudioSourceRef' = NULL
          /\ ops'[nOps'].pc = "synth" /\ ops'[nOps'].phase = "prompt"
          /\ <<"state", "NARRATING">> \in fx'.evts
     /\ \A o \in Ops :
          (fx'.op = o /\ ops[o].id[1] = "skip") =>
            ~\E e \in fx'.evts : e[1] = "synth" /\ e[2] = "story"
     /\ \A o \in Ops :
          (fx'.op = o /\ fx'.stale /\ curOp' \in Ops /\ ops'[curOp'].id[1] = "skip") =>
            ~DidWork']_vars

\* The last handler reported a state, invoked a host callback or called the
\* interpreter.
Surfaced ==
  Reported # {} \/ CalledOnError \/ CalledOnChoiceSelected \/ CalledInterpreter

\* C18: skip() called while the current operation holds a recognition session
\* or a silence timer, or awaits the interpreter, releases the session and
\* the timer; and once a skip operation is the current one, no result, timer,
\* error, end or interpretation event of an operation before it reports a
\* state, invokes a host callback or calls the interpreter.
C18_SkipCancelsListening ==
  [][/\ (/\ fx'.on = "host" /\ nOps' = nOps + 1 /\ ops'[nOps'].id[1] = "skip"
         /\ curOp \in Ops
         /\ \/ ops[curOp].ses \in {"starting", "active"}
            \/ timerPending /\ endOfSpeechTimeoutRef = curOp
            \/ ops[curOp].pc = "interp") =>
          /\ ActiveSessions' = {} /\ speechRecognitionRef' \in {NULL, nOps'}
          /\ ~(timerPending' /\ endOfSpeechTimeoutRef' = curOp)
     /\ (/\ fx'.stale /\ curOp' \in Ops /\ ops'[curOp'].id[1] = "skip"
         /\ fx'.on \in {"result", "timer", "error", "end", "interp"}) =>
          ~Surfaced']_vars

\* In state s no source plays, no session is open and no silence timer runs.
Released(s) ==
  /\ \A o \in Ops : s.ops[o].src # "playing"
  /\ \A o \in Ops : s.ops[o].ses \notin {"starting", "active", "closing"}
  /\ s.speechRecognitionRef = NULL
  /\ ~s.timerPending

ReplayOps == {o \in Ops : ops[o].id[1] = "replay"}

\* C19: whenever a choice is clicked, what the clicked-choice effect does
\* before narrating leaves no source playing, no session open and no timer
\* running; the operation it starts begins with the synthesis of the chosen
\* text, and none of its handlers starts another synthesis, opens a session,
\* reports LISTENING or PROCESSING or calls the interpreter.
C19_ReplayNarratesOnly ==
  [][/\ (mounted = "mounted" /\ isInitialized) => Released(clickedChoiceCancel(Cur))
     /\ (fx'.on = "host" /\ nOps' = nOps + 1 /\ nOps' \in ReplayOps') =>
          /\ ops'[nOps'].pc = "synth" /\ ops'[nOps'].phase = "replay"
          /\ Reported' \cap {"LISTENING", "PROCESSING"} = {}
          /\ ~OpenedSession' /\ ~CalledInterpreter'
     /\ \A o \in ReplayOps :
          fx'.op = o =>
            /\ ~OpenedSession' /\ ~CalledInterpreter'
            /\ Reported' \cap {"LISTENING", "PROCESSING"} = {}
            /\ ~\E e \in fx'.evts : e[1] = "synth"]_vars

\* C20: whenever the main effect's cleanup runs, it leaves the operation
\* identifier null, no source playing, no session open, no timer running and
\* the reported state IDLE.
C20_Teardown ==
  effectActive =>
    LET c == mainCleanup(Cur)
    IN /\ c.operationIdRef = NoId
       /\ Released(c)
       /\ c.narrationStateRef = "IDLE"

\* The last handler requested a synthesis.
CalledSynthesis == \E e \in fx.evts : e[1] = "synth"

\* C21: when a step that carries a choiceMade marker arrives (the narrator is
\* mounted on it, or the host shows it in place of another step), no
\* operation is started, no synthesis is requested, no session is opened and
\* NARRATING is not reported.
C21_ChoiceMadeStartsNothing ==
  [][(/\ fx'.on = "host" /\ storyStep'.choiceMade
      /\ (storyStep' # storyStep \/ mounted = "mounting")) =>
       /\ nOps' = nOps
       /\ ~CalledSynthesis' /\ ~OpenedSession'
       /\ "NARRATING" \notin Reported']_vars

\* The host went back from the latest step, which had started an operation,
\* to an earlier step.
C21_Witness ==
  /\ fx.on = "host" /\ mounted = "mounted"
  /\ storyStep = [id |-> 1, choiceMade |-> TRUE]
  /\ nOps = 1 /\ ops[1].id = <<"step", 2>> /\ curOp = NULL

\* The call awaited by the last handler threw.
Threw == <<"threw">> \in fx.evts

\* C22: when the synthesis or interpretation call of the current operation
\* throws, onError is invoked exactly once and the operation's chain is over
\* without another synthesis or interpretation request.
C22_ThrowSurfacedOnce ==
  (Threw /\ fx.on \in {"synth", "interp"} /\ ~fx.stale) =>
    /\ fx.errors = 1
    /\ ops[fx.op].pc = "done"
    /\ ~CalledSynthesis /\ ~CalledInterpreter

\* The last handler was the error callback of a session, run for an error
\* other than 'aborted'.
RecognitionFailed == fx.on = "error" /\ <<"recerror", "no-speech">> \in fx.evts

\* C23: a recognition error other than 'aborted' on the session of the
\* current operation releases the session and the silence timer and calls
\* the interpreter with the empty transcript, whatever final segments the
\* session had accumulated, without invoking onError.
C23_ErrorIsEmptyTranscript ==
  (RecognitionFailed /\ ~fx.stale) =>
    /\ speechRecognitionRef = NULL /\ ops[fx.op].ses = "none"
    /\ ~timerPending
    /\ <<"interpret", <<>>>> \in fx.evts /\ ops[fx.op].pc = "interp"
    /\ fx.errors = 0

\* The last handler was the error callback of a session, run for the error
\* 'aborted'.
RecognitionAborted == fx.on = "error" /\ <<"recerror", "aborted">> \in fx.evts

\* C24: the error callback run for the error 'aborted' calls no interpreter,
\* leaves the retry counter alone, requests no narration and does not invoke
\* onError.
C24_AbortedIsSilent ==
  [][RecognitionAborted' =>
       /\ ~CalledInterpreter' /\ ~CalledSynthesis'
       /\ retryCount' = retryCount
       /\ fx'.errors = 0]_vars

\* A call of interpretUserChoice returned; r is the model's answer, trimmed
\* and without its outer quotes.
Returned == returned # <<>>
AnswerText == StripQuotes(Trim(response[1]))
ChoiceSet == {choices[i] : i \in 1..Len(choices)}

\* C25: whatever the transcript, the choice list and the raw answer,
\* interpretUserChoice returns a choice of the list or 'UNCLEAR'.
C25_ReturnsChoiceOrUnclear ==
  Returned => returned[1] \in ChoiceSet \cup {UnclearText}

\* An answer that is neither a choice nor 'UNCLEAR' was mapped to a choice
\* of the list.
C25_Witness ==
  /\ Returned /\ AnswerText \notin ChoiceSet \cup {UnclearText}
  /\ returned[1] \in ChoiceSet

\* The positions of the choices that are substrings of the answer r.
Hits == {i \in 1..Len(choices) : Includes(AnswerText, choices[i])}
FirstHit == CHOOSE i \in Hits : \A j \in Hits : i <= j

\* The three calls of the example: what they returned.
ExampleResults ==
  choices = ExampleChoices =>
    /\ response[1] = QuotedRunAway => returned[1] = <<"Run away">>
    /\ response[1] = VerboseRunAway => returned[1] = <<"Run away">>
    /\ response[1] = ClimbTheWall => returned[1] = UnclearText

\* C26 as stated: r is returned when it equals a choice; otherwise the first
\* choice in list order that is a substring of r; otherwise 'UNCLEAR'.
C26_MatchingPolicy ==
  Returned =>
    /\ returned[1] = IF AnswerText \in ChoiceSet THEN AnswerText
                     ELSE IF Hits # {} THEN choices[FirstHit]
                     ELSE UnclearText
    /\ ExampleResults

\* C26 amended: r is returned when it equals a choice or is 'UNCLEAR';
\* otherwise the first choice in list order that is a substring of r, when
\* that choice is not the empty string; otherwise 'UNCLEAR'.
C26_MatchingPolicyAmended ==
  Returned =>
    /\ returned[1] = IF AnswerText \in ChoiceSet \/ AnswerText = UnclearText
                     THEN AnswerText
                     ELSE IF Hits # {} /\ choices[FirstHit] # <<>>
                     THEN choices[FirstHit]
                     ELSE UnclearText
    /\ ExampleResults

\* Two choices are substrings of the answer, which equals none, and the
\* first of them was returned.
C26_Witness ==
  /\ Returned /\ AnswerText \notin ChoiceSet \cup {UnclearText}
  /\ Cardinality(Hits) = 2 /\ choices[1] # choices[2]
  /\ returned[1] = choices[1]

\* C27: whatever synthesis, decode, playback, recognition and interpretation
\* do, every rejection raised in an operation started by the step-arrival
\* effect, the replay effect or skip() is received by a catch: none is left
\* unhandled.
C27_NoFailureEscapes == <<"unhandledrejection">> \notin fx.evts

\* The synthesis called by a replay operation threw and the rejection was
\* received by the `.catch` of the clicked-choice effect.
C27_Witness ==
  /\ Threw /\ fx.op \in ReplayOps /\ <<"caught", "other">> \in fx.evts
  /\ ops[fx.op].pc = "done"

\* C28: when no speech recognition exists, no session is ever opened and
\* LISTENING is never reported; and the current operation, when the playback
\* of its choice prompt ends, invokes onError and has nothing pending.
C28_NoRecognitionDevice ==
  [][~srAvailable =>
       /\ ActiveSessions' = {} /\ lateStart' = {} /\ ~OpenedSession'
       /\ "LISTENING" \notin Reported' /\ narrationStateRef' # "LISTENING"
       /\ \A o \in Ops :
            (/\ fx'.on = "ended" /\ fx'.op = o /\ ~fx'.stale
             /\ ops[o].pc = "play" /\ ops[o].phase = "prompt"
             /\ currentAudioSourceRef = o) =>
              fx'.errors >= 1 /\ Over(o)']_vars

\* Without speech recognition, the prompt of the current operation ended and
\* the operation reported the failure.
C28_Witness ==
  /\ ~srAvailable /\ fx.on = "ended" /\ ~fx.stale
  /\ <<"caught", "other">> \in fx.evts /\ fx.errors >= 1
  /\ narrationStateRef = "NARRATING"

\* C29: the handler in which the current operation goes from the end of its
\* prompt narration to listening, or from a finalised transcript to the
\* interpretation, reports no IDLE: the host sees NARRATING, LISTENING,
\* PROCESSING in this order, with IDLE only at an end or a cancellation.
C29_NoIdleBetweenPhases ==
  (~fx.stale /\ (OpenedSession \/ CalledInterpreter)) => "IDLE" \notin Reported

\* The last handler handed a session's transcript to processing.
Finalized == \E e \in fx.evts : e[1] = "finalize"

\* C30: a result event of the current operation's session leaves the silence
\* timer armed for that session; and when that session, with its timer armed
\* by a result, gets the first of timer expiry, recognition error and end
\* event, the transcript is handed to processing in that handler, which
\* releases the session and the timer so that it is handed over once, or
\* the session and its timer are still there to hand it over later.
C30_SilenceFinalization ==
  [][\A o \in Ops :
       /\ (fx'.on = "result" /\ fx'.op = o /\ ~fx'.stale) =>
            timerPending' /\ endOfSpeechTimeoutRef' = o
       /\ (/\ fx'.op = o /\ ~fx'.stale /\ fx'.on \in {"timer", "error", "end"}
           /\ ops[o].ses = "active" /\ speechRecognitionRef = o
           /\ timerPending /\ endOfSpeechTimeoutRef = o) =>
            \/ Finalized' /\ ops'[o].ses = "none" /\ ~timerPending'
                 /\ speechRecognitionRef' = NULL
            \/ ~Finalized' /\ timerPending' /\ endOfSpeechTimeoutRef' = o
                 /\ speechRecognitionRef' = o]_vars

\* C31: a result event appends its transcript to the session's final
\* transcript when the recognizer marked it final, and only then, and arms
\* the silence timer; the transcript a session's handler hands to the
\* interpreter is the concatenation of those final transcripts in arrival
\* order, trimmed and lowercased, so the empty one when every result was
\* interim.
C31_FinalSegmentsOnly ==
  [][\A o \in Ops :
       fx'.op = o =>
         /\ \A e \in fx'.evts :
              e[1] = "result" =>
                /\ ops'[o].final = IF e[3] THEN ops[o].final \o <<e[2]>> ELSE ops[o].final
                /\ timerPending' /\ endOfSpeechTimeoutRef' = o
         /\ \A e \in fx'.evts :
              (e[1] = "interpret" /\ fx'.on \in {"timer", "error", "end"}) =>
                /\ e[2] = ToLowerCase(Trim(Concat(ops[o].final)))
                /\ ops[o].final = <<>> => e[2] = <<>>]_vars

\* Two final transcripts, "go" and " STOP", were handed over as "go stop".
C31_Witness ==
  /\ fx.on = "timer" /\ <<"interpret", <<"go", " ", "stop">>>> \in fx.evts
  /\ <<"finalize", <<"go", " ", "STOP">>>> \in fx.evts

\* C32: whenever an operation invokes onChoiceSelected for a step that awaits
\* input, the host's handleSelectChoice passes its guard and runs
\* processChoice with that choice.
C32_VoiceChoiceCommitted ==
  ~storyStep.choiceMade =>
    \A c \in Choices :
      <<"choice", c>> \in fx.evts => <<"processChoice", c>> \in fx.evts

\* Nothing is left that could report a state: no source plays, no session is
\* active, no silence timer is pending and the current operation waits for no
\* synthesis, decode or interpretation call.
Quiescent ==
  /\ Playing = {}
  /\ ActiveSessions = {}
  /\ ~timerPending
  /\ \A o \in Ops : Current(Cur, o) => ops[o].pc \notin {"synth", "decode", "interp"}

\* C33: in a quiescent state the last reported state is IDLE; in particular
\* after the narration of a clicked choice has played to its end.
C33_QuiescenceImpliesIdle == Quiescent => narrationStateRef = "IDLE"

\* C34: no recognition session is active while a narration source is playing.
C34_MicrophoneOrSpeaker == ActiveSessions = {} \/ Playing = {}

\* C35: whenever the last reported state is LISTENING, a session opened by the
\* current operation is active; and the start event of a session that was
\* aborted, or that belongs to a superseded operation, does not report
\* LISTENING.
C35_ListeningHasSession ==
  /\ narrationStateRef = "LISTENING" =>
       \E o \in ActiveSessions : o = curOp /\ speechRecognitionRef = o
  /\ (fx.on = "lateStart" \/ (fx.on = "start" /\ fx.stale)) => "LISTENING" \notin Reported

\* C36: between the arrival of a step and the arrival of the next one the
\* narrator calls onChoiceSelected at most once.
C36_OneChoicePerStep == choicesReported <= 1

\* The silence timers that are pending.
RECURSIVE TimersOf(_)
TimersOf(n) == IF n = 0 THEN 0 ELSE ops[n].timers + TimersOf(n - 1)
PendingTimers == TimersOf(MaxOps)

\* C37: at most one silence timer is pending; and a timer that expires when
\* its session is no longer the one held (it was released, or a new session
\* was opened) finalizes nothing: no processing and no state report.
C37_SilenceTimerIsolation ==
  /\ [](PendingTimers <= 1)
  /\ [][(timerPending /\ fx'.on = "timer"
           /\ speechRecognitionRef # endOfSpeechTimeoutRef)
          => fx'.evts = {} /\ UNCHANGED narrationStateRef]_vars

\* A silence timer expired after its session had ended, and did nothing.
C37_Witness ==
  /\ fx.on = "timer" /\ fx.evts = {}
  /\ ops[fx.op].ses = "none" /\ speechRecognitionRef = NULL

====
